---- MODULE Spec2Model ----
(***************************************************************************)
(* Model of src/main.py: the "Will It Rain On My Parade?" Streamlit script. *)
(*                                                                         *)
(* Real numbers are fixed point: temperatures, rain, wind and humidex are  *)
(* integers in hundredths of their unit (Fix), coordinates are integers in *)
(* ten-thousandths of a degree, and a probability count / n is the pair    *)
(* [num |-> count, den |-> n], compared by cross multiplication.           *)
(***************************************************************************)
EXTENDS Integers, Sequences, FiniteSets, TLC

VARIABLES
    session_state,      \* st.session_state: the set of its <<key, value>> items
    location_input,     \* sidebar widget values, kept by the session
    target_date_input,
    hot_threshold,
    cold_threshold,
    rain_threshold,
    today_year,         \* date.today().year
    rng,                \* state of the global numpy generator (np.random)
    data_list,          \* what the provider returned to the last analysis
    analysis_data,      \* what analyze_historical_data returned to the caller
    screen,             \* elements rendered by the last run of the script
    pc,                 \* position of the session / of the engine run
    last_call,          \* the last call of the provider: its arguments and year
    first_call,         \* the session's first call of the provider, and its sample
    prob,               \* argument of get_risk_level (classification runs)
    levels,             \* every band get_risk_level returned for prob
    calls               \* number of calls of get_risk_level made for prob

vars == <<session_state, location_input, target_date_input, hot_threshold,
          cold_threshold, rain_threshold, today_year, rng, data_list,
          analysis_data, screen, pc, last_call, first_call, prob, levels, calls>>

----------------------------------------------------------------------------
(* Bounds of the model *)

MaxLen == 3          \* longest sample handed to the engine directly
MaxTicks == 1        \* how many times the calendar year may advance
MaxDen == 20         \* largest denominator of a classified probability
MaxCalls == 2        \* calls of get_risk_level per probability
RngStates == 256     \* number of states of the modelled generator
MaxEntropy == 1      \* the generator starts in one of the states 0 .. MaxEntropy

FirstYear == 2026    \* calendar year in which the session starts

\* Python values: None, a list of dicts, and the exception of an uncaught error
None == [py |-> "NoneType"]
List(items) == [py |-> "list", items |-> items]
KeyError == [py |-> "KeyError"]

Fix(n) == n * 100

----------------------------------------------------------------------------
(* Python built-ins used by the script *)

RECURSIVE IntStr(_)
\* str(n) of a non-negative int, as the sequence of its ASCII codes
IntStr(n) == IF n < 10 THEN <<48 + n>> ELSE IntStr(n \div 10) \o <<48 + (n % 10)>>

RECURSIVE FracStr(_, _)
\* the digits of f / 10^w after the decimal point, shortest form
FracStr(f, w) ==
    IF w = 1 THEN <<48 + f>>
    ELSE IF f % 10 = 0 THEN FracStr(f \div 10, w - 1)
    ELSE FracStr(f \div 10, w - 1) \o <<48 + (f % 10)>>

\* str(x) of a float with four decimals, x given in ten-thousandths
FloatStr(x) ==
    LET a == IF x < 0 THEN -x ELSE x
    IN  (IF x < 0 THEN <<45>> ELSE <<>>)
        \o IntStr(a \div 10000) \o <<46>> \o FracStr(a % 10000, 4)

RECURSIVE PolyHash(_, _)
PolyHash(s, h) ==
    IF s = <<>> THEN h ELSE PolyHash(Tail(s), (h * 31 + Head(s)) % 65536)

\* hash(s) of a str: a signed value, fixed for the life of the process
\* (64 bits in CPython, 16 bits here)
hash(s) == LET h == PolyHash(s, 7) IN IF h >= 32768 THEN h - 65536 ELSE h

abs(x) == IF x < 0 THEN -x ELSE x

\* round(num / den) to the nearest integer, ties to even; den > 0
Round(num, den) ==
    LET q == num \div den
        r == num % den
    IN  IF 2 * r < den THEN q
        ELSE IF 2 * r > den THEN q + 1
        ELSE IF q % 2 = 0 THEN q ELSE q + 1

----------------------------------------------------------------------------
(* numpy.random: the global generator *)

\* np.random.seed(s): the state is a function of the seed alone
np_random_seed(s) == s % RngStates

\* the generator's state after one more draw
Advance(x) == (x * 5 + 3) % RngStates

RECURSIVE Stream(_, _)
\* the states of the generator over n successive draws, starting after x
Stream(x, n) ==
    IF n = 0 THEN <<>>
    ELSE IF n = 1 THEN <<Advance(x)>>
    ELSE LET first == Stream(x, n \div 2)
         IN  first \o Stream(first[Len(first)], n - n \div 2)

\* np.random.uniform(low, high) drawn in state x (np.random.rand is uniform(0, 1))
uniform(low, high, x) == low + ((high - low) * x) \div RngStates

\* np.random.lognormal(mean=log(1.5), sigma=1.0) drawn in state x: the
\* eight octile midpoints of the distribution, in hundredths of a millimetre
lognormal(x) == <<32, 62, 92, 128, 176, 245, 365, 693>>[(x * 8) \div RngStates + 1]

----------------------------------------------------------------------------
(* Utility functions of the script *)

SanFrancisco == [lat |-> 377749, lon |-> -1224194]
Tokyo == [lat |-> 356895, lon |-> 1396917]
LosAngeles == [lat |-> 340522, lon |-> -1182437]

\* the location texts a user may type, and the city name each contains
\* once lower-cased
LocationInputs == {"San Francisco, CA", "Tokyo", "Paris"}
Mentions(location_name, city) ==
    \/ city = "san francisco" /\ location_name = "San Francisco, CA"
    \/ city = "tokyo" /\ location_name = "Tokyo"

geocode_location(location_name) ==
    IF Mentions(location_name, "san francisco") THEN SanFrancisco
    ELSE IF Mentions(location_name, "tokyo") THEN Tokyo
    ELSE LosAngeles

num_years == 30

\* 2**32 - 1, scaled as the hash is (16 bits for 64)
SeedModulus == 2^8 - 1

\* the generator's state once line 64 has run, g being its state before
seed_skipped(lat, lon, month, day, g) == g
seed_generator(lat, lon, month, day, g) ==
    np_random_seed(
        abs(hash(FloatStr(lat) \o FloatStr(lon) \o IntStr(month) \o IntStr(day)))
            % SeedModulus)

\* range(date.today().year - num_years, date.today().year)
years_short(year) == [i \in 1 .. num_years - 1 |-> year - num_years + i]
year_range(year) == [i \in 1 .. num_years |-> year - num_years + (i - 1)]

\* One call of the provider in calendar year `year` with the generator in
\* state g: the sample returned and the state the generator is left in.
fetch_historical_climate_data_api(lat, lon, month, day, year, g) ==
    LET x0 == seed_generator(lat, lon, month, day, g)
        st == Stream(x0, 1 + 5 * num_years)
        base_temp == Fix(20) + lat \div 200 - uniform(0, Fix(30), st[1])
        yrs == year_range(year)
        draw(i, k) == st[1 + 5 * (i - 1) + k]
    IN  [data |-> List(
            [i \in 1 .. Len(yrs) |->
                [Year |-> yrs[i],
                 Max_Temp_C |-> uniform(base_temp - Fix(5), base_temp + Fix(15), draw(i, 1))
                                + (yrs[i] - (year - num_years)) * 5,
                 Min_Temp_C |-> uniform(base_temp - Fix(15), base_temp + Fix(5), draw(i, 2)),
                 Rain_mm |-> lognormal(draw(i, 3)),
                 Wind_m_s |-> uniform(Fix(5), Fix(15), draw(i, 4)),
                 Humidex |-> uniform(Fix(20), Fix(45), draw(i, 5))]]),
         rng |-> st[Len(st)]]

RECURSIVE SumSeq(_)
SumSeq(s) == IF s = <<>> THEN 0 ELSE Head(s) + SumSeq(Tail(s))

\* (column > threshold).sum() and (column < threshold).sum()
count_above_or_equal(s, field, thresh) ==
    Cardinality({i \in 1 .. Len(s) : s[i][field] >= thresh})
count_above(s, field, thresh) ==
    Cardinality({i \in 1 .. Len(s) : s[i][field] > thresh})
count_below(s, field, thresh) ==
    Cardinality({i \in 1 .. Len(s) : s[i][field] < thresh})

\* count / total_observations
ratio_off_by_one(count, total) == [num |-> count, den |-> total + 1]
ratio(count, total) == [num |-> count, den |-> total]

\* round(10 * slope, 2) for slope, intercept = np.polyfit(x, y, 1), in
\* hundredths of a degree per decade.  The least-squares slope does not
\* change when x is shifted, so x is taken relative to the first year.  When
\* every x is the same year the system is rank deficient: numpy warns and
\* returns the minimum-norm solution, whose slope is mean(y) / (2 * year).
polyfit_trend(s) ==
    LET n == Len(s)
        x == [i \in 1 .. n |-> s[i].Year - s[1].Year]
        y == [i \in 1 .. n |-> s[i].Max_Temp_C]
        sx == SumSeq(x)
        sy == SumSeq(y)
        sxy == SumSeq([i \in 1 .. n |-> x[i] * y[i]])
        sxx == SumSeq([i \in 1 .. n |-> x[i] * x[i]])
        den == n * sxx - sx * sx
    IN  IF den = 0 THEN Round(5 * sy, n * s[1].Year)
        ELSE Round(10 * (n * sxy - sx * sy), den)

\* Lines 108-157: the result record.  pd.DataFrame([]) has no columns, so
\* line 115 raises KeyError for a list of no observations.
compute_results(data, hot_thresh, cold_thresh, rain_thresh) ==
    IF data = <<>> THEN KeyError
    ELSE
        LET n == Len(data)
        IN  [historical_period_years |-> n,
             avg_daily_high_c |->
                 Round(SumSeq([i \in 1 .. n |-> data[i].Max_Temp_C]), n * 10),
             avg_rainfall_mm |->
                 Round(SumSeq([i \in 1 .. n |-> data[i].Rain_mm]), n * 10),
             temp_trend_c_per_decade |-> polyfit_trend(data),
             extreme_probabilities |->
                 [very_hot |-> ratio(count_above(data, "Max_Temp_C", Fix(hot_thresh)), n),
                  very_cold |-> ratio(count_below(data, "Min_Temp_C", Fix(cold_thresh)), n),
                  very_wet |-> ratio(count_above(data, "Rain_mm", Fix(rain_thresh)), n),
                  very_windy |-> ratio(count_above(data, "Wind_m_s", Fix(12)), n),
                  very_uncomfortable_humidex |->
                      ratio(count_above(data, "Humidex", Fix(35)), n)]]

\* not data_list
is_none(data) == data = None
is_empty(data) == data = None \/ data.items = <<>>

\* Lines 105-157 of analyze_historical_data: what it returns for the
\* data_list the provider gave it at line 99.
analyze_historical_data(data, hot_thresh, cold_thresh, rain_thresh) ==
    IF is_empty(data) THEN None
    ELSE compute_results(data.items, hot_thresh, cold_thresh, rain_thresh)

Conditions == {"very_hot", "very_cold", "very_wet", "very_windy",
               "very_uncomfortable_humidex"}

\* p >= 0.35 and p >= 0.15 for p = num / den
AtLeast(p, hundredths) == p.num * 100 >= hundredths * p.den
MoreThan(p, hundredths) == p.num * 100 > hundredths * p.den

get_risk_level_exclusive(p) ==
    IF MoreThan(p, 35) THEN "High"
    ELSE IF MoreThan(p, 15) THEN "Moderate"
    ELSE "Low"
get_risk_level(p) ==
    IF AtLeast(p, 35) THEN "High"
    ELSE IF AtLeast(p, 15) THEN "Moderate"
    ELSE "Low"

\* the text of format_trend, for a trend in hundredths of a degree
format_trend(trend_value) ==
    IF trend_value > 5 THEN "rising"
    ELSE IF trend_value < -5 THEN "falling"
    ELSE "Stable"

\* Lines 271-396: what the caller renders for the value the analysis returned
display_eager(data) ==
    IF data = None THEN {<<"error">>, <<"header">>}
    ELSE {<<"success">>}
display(data) ==
    IF data = None THEN {<<"error">>}
    ELSE
        LET probs == data.extreme_probabilities
            max_prob == CHOOSE p \in {probs[c] : c \in Conditions} :
                            \A c \in Conditions :
                                p.num * probs[c].den >= probs[c].num * p.den
        IN  {<<"success">>, <<"header">>, <<"chart">>, <<"averages">>}
            \cup {<<"metric", c, get_risk_level(probs[c])>> : c \in Conditions}
            \cup {<<"trend", format_trend(data.temp_trend_c_per_decade)>>}
            \cup {<<"recommendation", get_risk_level(max_prob)>>}

DashboardKinds == {"success", "header", "chart", "averages", "metric", "trend",
                   "recommendation"}
Dashboard(elements) == {e \in elements : e[1] \in DashboardKinds}

\* st.session_state as a mapping
Has(state, key) == \E item \in state : item[1] = key
Get(state, key) == (CHOOSE item \in state : item[1] = key)[2]
Put(state, key, value) == {item \in state : item[1] # key} \cup {<<key, value>>}

\* Lines 247-252: the session state after the button returned `clicked`
flag_follows_button(state, clicked) == Put(state, "analyze_clicked", clicked)
update_session_state(state, clicked) ==
    LET pressed == IF clicked THEN Put(state, "analyze_clicked", TRUE) ELSE state
    IN  IF ~Has(pressed, "analyze_clicked")
        THEN Put(pressed, "analyze_clicked", FALSE)
        ELSE pressed

\* st.session_state['analyze_clicked'], once the key is there
analyze_clicked == Has(session_state, "analyze_clicked")
                   /\ Get(session_state, "analyze_clicked")

----------------------------------------------------------------------------
(* The session: every user event reruns the whole script *)

DateInputs == {<<1, 12>>, <<7, 4>>}

\* the values of the three threshold widgets: the defaults (lines 222, 231,
\* 242) and one other value of each widget
ThresholdInputs == {<<30, 10, 5>>, <<50, 10, 5>>, <<30, 25, 5>>, <<30, 10, 20>>}

Call(place, when, year) ==
    [lat |-> place.lat, lon |-> place.lon, month |-> when[1], day |-> when[2],
     year |-> year]

SameArguments(a, b) ==
    a.lat = b.lat /\ a.lon = b.lon /\ a.month = b.month /\ a.day = b.day

\* Lines 271-396, and the record of the provider's calls.  An exception
\* that nothing catches ends the run: Streamlit shows it in place of the rest.
Render(result, call, data) ==
    /\ analysis_data' = result
    /\ screen' = {<<"title">>, <<"info">>}
                  \cup IF result = KeyError THEN {<<"exception">>} ELSE display(result)
    /\ data_list' = data
    /\ last_call' = call
    /\ first_call' =
           IF first_call = None
           THEN [call |-> call, data |-> data, others |-> FALSE]
           ELSE [first_call EXCEPT
                    !.others = @ \/ ~SameArguments(call, first_call.call)]

\* Lines 99-157 and what follows them, `got` being what line 99 returned
Analyze(got, call, hot, cold, rain) ==
    /\ rng' = got.rng
    /\ Render(analyze_historical_data(got.data, hot, cold, rain), call, got.data)

\* Lines 256-400, `place` being what line 259 returned
Main(flag, place, when, hot, cold, rain) ==
    IF flag
    THEN Analyze(fetch_historical_climate_data_api(
                     place.lat, place.lon, when[1], when[2], today_year, rng),
                 Call(place, when, today_year), hot, cold, rain)
    ELSE /\ screen' = {<<"title">>, <<"landing">>}
         /\ UNCHANGED <<rng, data_list, analysis_data, last_call, first_call>>

\* One run of the script with the widget values given, the button
\* returning `clicked`
Script(location, when, thresholds, clicked, event) ==
    /\ location_input' = location
    /\ target_date_input' = when
    /\ hot_threshold' = thresholds[1]
    /\ cold_threshold' = thresholds[2]
    /\ rain_threshold' = thresholds[3]
    /\ session_state' = update_session_state(session_state, clicked)
    /\ pc' = event
    /\ UNCHANGED <<today_year, prob, levels, calls>>
    /\ Main(Get(session_state', "analyze_clicked"), geocode_location(location),
            when, thresholds[1], thresholds[2], thresholds[3])

Thresholds == <<hot_threshold, cold_threshold, rain_threshold>>

InSession == pc \in {"load", "change", "click"}

\* the browser opens the page: the first run of the script
Load ==
    /\ pc = "new"
    /\ Script(location_input, target_date_input, Thresholds, FALSE, "load")

ChangeLocation ==
    /\ InSession
    /\ \E v \in LocationInputs \ {location_input} :
           Script(v, target_date_input, Thresholds, FALSE, "change")

ChangeDate ==
    /\ InSession
    /\ \E v \in DateInputs \ {target_date_input} :
           Script(location_input, v, Thresholds, FALSE, "change")

\* one of the three threshold widgets is given another value
ChangeThreshold ==
    /\ InSession
    /\ \E v \in ThresholdInputs :
           /\ Cardinality({i \in 1 .. 3 : v[i] # Thresholds[i]}) = 1
           /\ Script(location_input, target_date_input, v, FALSE, "change")

ClickAnalyze ==
    /\ InSession
    /\ Script(location_input, target_date_input, Thresholds, TRUE, "click")

\* the calendar year advances while the session is open
Tick ==
    /\ InSession
    /\ today_year < FirstYear + MaxTicks
    /\ today_year' = today_year + 1
    /\ UNCHANGED <<session_state, location_input, target_date_input,
                   hot_threshold, cold_threshold, rain_threshold, rng, data_list,
                   analysis_data, screen, pc, last_call, first_call, prob, levels,
                   calls>>

Init ==
    /\ session_state = {}
    /\ location_input = "San Francisco, CA"
    /\ target_date_input = <<1, 12>>
    /\ hot_threshold = 30
    /\ cold_threshold = 10
    /\ rain_threshold = 5
    /\ today_year = FirstYear
    /\ rng \in 0 .. MaxEntropy
    /\ data_list = None
    /\ analysis_data = None
    /\ screen = {}
    /\ pc = "new"
    /\ last_call = None
    /\ first_call = None
    /\ prob = [num |-> 0, den |-> 1]
    /\ levels = {}
    /\ calls = 0

Next ==
    \/ Load
    \/ ChangeLocation
    \/ ChangeDate
    \/ ChangeThreshold
    \/ ClickAnalyze
    \/ Tick

Spec == Init /\ [][Next]_vars

----------------------------------------------------------------------------
(* The engine alone: lines 105-157 and 271-396 for any list the provider   *)
(* may hand over (None and the empty list included, which line 105 tests   *)
(* for) and any thresholds a caller may pass.                               *)

\* <<max, min, rain, wind, humidex>> in whole units: below, at and above the
\* default thresholds and the fixed ones, and at and beyond the widgets' limits
Profiles == {<<29, 9, 4, 11, 34>>, <<30, 10, 5, 12, 35>>, <<31, 11, 6, 13, 36>>,
             <<50, -20, 20, 12, 35>>, <<51, -21, 21, 13, 36>>}

EngineYears == 2000 .. 2000 + MaxLen - 1

Observations ==
    {[Year |-> y, Max_Temp_C |-> Fix(p[1]), Min_Temp_C |-> Fix(p[2]),
      Rain_mm |-> Fix(p[3]), Wind_m_s |-> Fix(p[4]), Humidex |-> Fix(p[5])] :
        y \in EngineYears, p \in Profiles}

\* samples as the data model has them: one observation per year, the years
\* strictly increasing
EngineSamples ==
    {s \in UNION {[1 .. n -> Observations] : n \in 0 .. MaxLen} :
        \A i \in 1 .. Len(s) - 1 : s[i].Year < s[i + 1].Year}

EngineHot == {14, 30, 50, 51}
EngineCold == {-21, -20, 10, 26}
EngineRain == {-1, 5, 20, 21}

EngineInit ==
    /\ session_state = {<<"analyze_clicked", TRUE>>}
    /\ location_input = "San Francisco, CA"
    /\ target_date_input = <<1, 12>>
    /\ hot_threshold \in EngineHot
    /\ cold_threshold \in EngineCold
    /\ rain_threshold \in EngineRain
    /\ today_year = FirstYear
    /\ rng = 0
    /\ data_list \in {None} \cup {List(s) : s \in EngineSamples}
    /\ analysis_data = None
    /\ screen = {}
    /\ pc = "engine"
    /\ last_call = None
    /\ first_call = None
    /\ prob = [num |-> 0, den |-> 1]
    /\ levels = {}
    /\ calls = 0

EngineRun ==
    /\ pc = "engine"
    /\ pc' = "shown"
    /\ analysis_data' = analyze_historical_data(
                            data_list, hot_threshold, cold_threshold, rain_threshold)
    /\ screen' = {<<"title">>, <<"info">>}
                  \cup IF analysis_data' = KeyError THEN {<<"exception">>}
                       ELSE display(analysis_data')
    /\ UNCHANGED <<session_state, location_input, target_date_input,
                   hot_threshold, cold_threshold, rain_threshold, today_year, rng,
                   data_list, last_call, first_call, prob, levels, calls>>

EngineNext == EngineRun

SpecEngine == EngineInit /\ [][EngineNext]_vars

----------------------------------------------------------------------------
(* get_risk_level alone, called again and again with one probability *)

Probabilities ==
    {[num |-> k, den |-> d] : k \in 0 .. MaxDen, d \in 1 .. MaxDen}
    \cup {[num |-> k, den |-> 100] : k \in 0 .. 100}

ClassifyInit ==
    /\ session_state = {}
    /\ location_input = "San Francisco, CA"
    /\ target_date_input = <<1, 12>>
    /\ hot_threshold = 30
    /\ cold_threshold = 10
    /\ rain_threshold = 5
    /\ today_year = FirstYear
    /\ rng = 0
    /\ data_list = None
    /\ analysis_data = None
    /\ screen = {}
    /\ pc = "classify"
    /\ last_call = None
    /\ first_call = None
    /\ prob \in {p \in Probabilities : p.num <= p.den}
    /\ levels = {}
    /\ calls = 0

Classify ==
    /\ pc = "classify"
    /\ calls < MaxCalls
    /\ calls' = calls + 1
    /\ levels' = levels \cup {get_risk_level(prob)}
    /\ UNCHANGED <<session_state, location_input, target_date_input,
                   hot_threshold, cold_threshold, rain_threshold, today_year, rng,
                   data_list, analysis_data, screen, pc, last_call, first_call,
                   prob>>

ClassifyNext == Classify

SpecClassify == ClassifyInit /\ [][ClassifyNext]_vars

----------------------------------------------------------------------------
(* The claims *)

Shown == pc = "shown"
IsResult(r) == r # None /\ r # KeyError
NonEmpty(d) == d # None /\ d.items # <<>>
Items == data_list.items
Probs == analysis_data.extreme_probabilities
Exceeding(field, thresh) == {i \in 1 .. Len(Items) : Items[i][field] > thresh}
Under(field, thresh) == {i \in 1 .. Len(Items) : Items[i][field] < thresh}
Fraction(set) == [num |-> Cardinality(set), den |-> Len(Items)]

\* C1: for a non-empty sample and any thresholds, each of the five
\* probabilities returned is (observations satisfying the strict predicate)
\* / (observations): max > hot, min < cold, rain > rain threshold, wind > 12,
\* humidex > 35; an observation at the threshold is not counted.
C1_ProbabilitiesAreStrictFractions ==
    (Shown /\ NonEmpty(data_list)) =>
        /\ IsResult(analysis_data)
        /\ Probs.very_hot = Fraction(Exceeding("Max_Temp_C", Fix(hot_threshold)))
        /\ Probs.very_cold = Fraction(Under("Min_Temp_C", Fix(cold_threshold)))
        /\ Probs.very_wet = Fraction(Exceeding("Rain_mm", Fix(rain_threshold)))
        /\ Probs.very_windy = Fraction(Exceeding("Wind_m_s", 1200))
        /\ Probs.very_uncomfortable_humidex = Fraction(Exceeding("Humidex", 3500))

\* a sample with an observation exactly at the hot threshold and one above
\* it has been analysed, and only the one above was counted
C1_Witness ==
    /\ Shown
    /\ NonEmpty(data_list)
    /\ Len(Items) = 2
    /\ Items[1].Max_Temp_C = Fix(hot_threshold)
    /\ Items[2].Max_Temp_C > Fix(hot_threshold)
    /\ Items[1].Min_Temp_C = Fix(cold_threshold)
    /\ Items[1].Wind_m_s = 1200
    /\ IsResult(analysis_data)
    /\ Probs.very_hot = [num |-> 1, den |-> 2]
    /\ Probs.very_cold = [num |-> 0, den |-> 2]

\* C2: get_risk_level returns High for p >= 0.35, Moderate for
\* 0.15 <= p < 0.35 and Low for p < 0.15, the boundaries belonging to the
\* higher band, and every call with the same p returns the same band.
C2_RiskBands ==
    (pc = "classify" /\ calls > 0) =>
        /\ (100 * prob.num >= 35 * prob.den => levels = {"High"})
        /\ (100 * prob.num >= 15 * prob.den /\ 100 * prob.num < 35 * prob.den
                => levels = {"Moderate"})
        /\ (100 * prob.num < 15 * prob.den => levels = {"Low"})

\* 0.35 itself (7 / 20) has been classified twice, High both times
C2_Witness ==
    /\ pc = "classify"
    /\ calls >= 2
    /\ prob = [num |-> 7, den |-> 20]
    /\ levels = {"High"}

\* C3: every probability of a returned result lies in [0, 1]; very_hot is
\* exactly 1 when every observation's max_temp_c exceeds the hot threshold
\* and exactly 0 when none does.
C3_ProbabilitiesInUnitInterval ==
    (Shown /\ IsResult(analysis_data)) =>
        /\ \A c \in Conditions :
               /\ Probs[c].den > 0
               /\ 0 <= Probs[c].num
               /\ Probs[c].num <= Probs[c].den
        /\ ((\A i \in 1 .. Len(Items) : Items[i].Max_Temp_C > Fix(hot_threshold))
                => Probs.very_hot.num = Probs.very_hot.den)
        /\ ((\A i \in 1 .. Len(Items) : ~(Items[i].Max_Temp_C > Fix(hot_threshold)))
                => Probs.very_hot.num = 0)

\* two observations, both above the hot threshold: very_hot is 2 / 2
C3_Witness ==
    /\ Shown
    /\ IsResult(analysis_data)
    /\ Len(Items) = 2
    /\ \A i \in 1 .. 2 : Items[i].Max_Temp_C > Fix(hot_threshold)
    /\ Probs.very_hot = [num |-> 2, den |-> 2]

\* C4: for a sample of zero observations the analysis returns its failure
\* value and no result; no result ever carries a quotient by zero, and the
\* analysis never ends in an exception.
C4_EmptySampleFails ==
    Shown =>
        /\ (data_list = List(<<>>) => analysis_data = None)
        /\ analysis_data # KeyError
        /\ (IsResult(analysis_data) => \A c \in Conditions : Probs[c].den # 0)

\* the empty list has been analysed and the failure value returned
C4_Witness == Shown /\ data_list = List(<<>>) /\ analysis_data = None

DistinctYears == {Items[i].Year : i \in 1 .. Len(Items)}

ThresholdsInRange ==
    /\ 15 <= hot_threshold /\ hot_threshold <= 50
    /\ -20 <= cold_threshold /\ cold_threshold <= 25
    /\ 0 <= rain_threshold /\ rain_threshold <= 20

\* C6: the engine itself rejects thresholds outside [15,50], [-20,25] and
\* [0,20]: for such thresholds it fails and returns no result.
C6_EngineValidatesThresholds ==
    (Shown /\ ~ThresholdsInRange) => ~IsResult(analysis_data)

\* C7: every sample the provider returns has exactly 30 observations, whose
\* years are current_year - 30 .. current_year - 1 in strictly increasing
\* order, none repeated and none missing.
C7_ThirtyConsecutiveYears ==
    last_call # None =>
        /\ Len(Items) = 30
        /\ \A i \in 1 .. Len(Items) : Items[i].Year = last_call.year - 30 + (i - 1)
        /\ \A i \in 1 .. Len(Items) - 1 : Items[i].Year < Items[i + 1].Year
        /\ DistinctYears = (last_call.year - 30) .. (last_call.year - 1)

\* the provider was called after the year advanced: its sample ends with
\* the year the session started in
C7_Witness ==
    /\ last_call # None
    /\ last_call.year = FirstYear + 1
    /\ Items[1].Year = FirstYear - 29
    /\ Items[30].Year = FirstYear

Repeated == first_call # None /\ SameArguments(last_call, first_call.call)

C9_NoDashboardOnFailure ==
    Shown =>
        /\ (analysis_data = None =>
                <<"error">> \in screen /\ Dashboard(screen) = {})
        /\ (Dashboard(screen) # {} =>
                /\ IsResult(analysis_data)
                /\ DOMAIN analysis_data =
                       {"historical_period_years", "avg_daily_high_c",
                        "avg_rainfall_mm", "temp_trend_c_per_decade",
                        "extreme_probabilities"}
                /\ <<"error">> \notin screen)

\* the analysis of an empty sample failed and only the error is on screen
C9_Witness ==
    /\ Shown
    /\ data_list = List(<<>>)
    /\ analysis_data = None
    /\ screen = {<<"title">>, <<"info">>, <<"error">>}

\* C10: analyze_clicked starts False, a click makes it True, nothing makes
\* it False again, and once it is True every rerun of the script geocodes
\* and analyses the current widget values and never shows the landing message.
C10_ClickLatches ==
    [][/\ (pc = "new" => Get(session_state', "analyze_clicked") = FALSE)
       /\ (pc' = "click" => analyze_clicked')
       /\ (analyze_clicked => analyze_clicked')
       /\ ((analyze_clicked /\ today_year' = today_year) =>
               /\ last_call' = Call(geocode_location(location_input'),
                                    target_date_input', today_year')
               /\ analysis_data' = analyze_historical_data(
                                       data_list', hot_threshold', cold_threshold',
                                       rain_threshold')
               /\ <<"info">> \in screen'
               /\ <<"landing">> \notin screen')]_vars

\* after the click, a widget change has rerun the script, which analysed again
C10_Witness ==
    /\ analyze_clicked
    /\ pc = "change"
    /\ location_input = "Tokyo"
    /\ last_call = Call(Tokyo, target_date_input, today_year)
    /\ <<"info">> \in screen

====
